---------------------------- MODULE Spec2Model ----------------------------
(***************************************************************************)
(* The OTA container codec of tools/cc_swu_encrypt.py (pack) and           *)
(* tools/cc_swu_decrypt.py (unpack), as a state machine over a file        *)
(* system.  A byte is a number in 0..255, a file's content a sequence of   *)
(* bytes, a path a string.  Python's 0-based half-open slices data[a:b]    *)
(* are the 1-based SubSeq(data, a+1, b).                                   *)
(*                                                                         *)
(* The three library primitives the tools call are not code of the         *)
(* repository: openssl's AES-256-CBC, hashlib's MD5 and zipfile.  Each is  *)
(* a stand-in with the properties the tools rely on, stated at its         *)
(* definition; everything the tools themselves do (slicing, padding,       *)
(* masking, the header layout, the order of checks, the temp files) is     *)
(* translated statement by statement.                                      *)
(***************************************************************************)
EXTENDS Integers, Sequences, FiniteSets, TLC

-----------------------------------------------------------------------------
(* Bounds of the model *)

\* Archive inputs have every length 0..MaxArchiveLen.
MaxArchiveLen == 18

\* Payloads of hand-made containers have every length 0..MaxCraftLen.
MaxCraftLen == 17

\* Operations (pack, unpack, bit flip) of one sequential session.
MaxOps == 3

-----------------------------------------------------------------------------
(* Program constants *)

\* cc_swu_decrypt.py: HEADER_SIZE = 0x20
HEADER_SIZE == 32

\* _pad16: the AES block size
BLOCK == 16

\* OTA_MAGIC = bytes([0x14, 0x17, 0x0B, 0x17]) in both tools
OTA_MAGIC == <<20, 23, 11, 23>>

\* CUSTOM_INFO = bytes([0x01, 0x00, 0x00, 0x00])
CUSTOM_INFO == <<1, 0, 0, 0>>

\* cc_swu_encrypt.py _KEY = "78B6A614B6B6E361DC84D705B7FDDA33C967DDF2970A689F8156F78EFE0B1FCE"
ENC_KEY ==
  << 120, 182, 166,  20, 182, 182, 227,  97, 220, 132, 215,   5, 183, 253, 218,  51,
     201, 103, 221, 242, 151,  10, 104, 159, 129,  86, 247, 142, 254,  11,  31, 206 >>

\* cc_swu_decrypt.py _KEY = "78B6A614B6B6E361DC84D705B7FDDA33C967DDF2970A689F8156F78EFE0B0928"
DEC_KEY ==
  << 120, 182, 166,  20, 182, 182, 227,  97, 220, 132, 215,   5, 183, 253, 218,  51,
     201, 103, 221, 242, 151,  10, 104, 159, 129,  86, 247, 142, 254,  11,   9,  40 >>

\* cc_swu_encrypt.py _IV = "54E37626B9A699403064111F77858049"
ENC_IV ==
  << 84, 227, 118,  38, 185, 166, 153,  64,  48, 100,  17,  31, 119, 133, 128,  73 >>

\* cc_swu_decrypt.py _IV = "54E37626B9A699403064111F77858049"
DEC_IV ==
  << 84, 227, 118,  38, 185, 166, 153,  64,  48, 100,  17,  31, 119, 133, 128,  73 >>

-----------------------------------------------------------------------------
(* Bytes *)

Byte == 0..255

\* What a path holds: no file, or a file with its bytes.
NoFile == [exists |-> FALSE, bytes |-> << >>]

File(b) == [exists |-> TRUE, bytes |-> b]

RECURSIVE Xor(_, _)
\* a ^ b on naturals, bit by bit.
Xor(a, b) ==
  IF a = 0 THEN b
  ELSE IF b = 0 THEN a
  ELSE (((a % 2) + (b % 2)) % 2) + (2 * Xor(a \div 2, b \div 2))

\* b"\x00" * n
Zeros(n) == [i \in 1..n |-> 0]

\* s[a:] of Python for 0 <= a
From(s, a) == SubSeq(s, a + 1, Len(s))

\* s[:b] of Python for 0 <= b
Upto(s, b) == SubSeq(s, 1, IF b < Len(s) THEN b ELSE Len(s))

\* x & 0xFF of a Python integer of either sign (TLA+'s % is the floored modulus).
Mask8(x) == x % 256

\* struct.pack("<I", n) for 0 <= n < 2^32
PackLE32(n) ==
  << n % 256, (n \div 256) % 256, (n \div 65536) % 256, (n \div 16777216) % 256 >>

\* struct.unpack_from("<I", data, off)[0]
UnpackLE32(data, off) ==
  data[off + 1] + (256 * data[off + 2]) + (65536 * data[off + 3]) + (16777216 * data[off + 4])

-----------------------------------------------------------------------------
(* _pad16 *)

_pad16(data) ==
  LET remainder == Len(data) % BLOCK
  IN  IF remainder # 0 THEN data \o Zeros(BLOCK - remainder) ELSE data

-----------------------------------------------------------------------------
(* hashlib.md5: a stand-in.  What the tools rely on: a 16-byte value that  *)
(* is a function of the bytes alone.  Like MD5 the stand-in is not         *)
(* injective (messages of equal length, byte sum and weighted byte sum     *)
(* collide), and like MD5 as far as is known it tells a message from the   *)
(* same message with one bit flipped.                                      *)

RECURSIVE ByteSum(_, _)
ByteSum(m, i) == IF i = 0 THEN 0 ELSE (ByteSum(m, i - 1) + m[i]) % 65536

RECURSIVE WeightedSum(_, _)
WeightedSum(m, i) == IF i = 0 THEN 0 ELSE (WeightedSum(m, i - 1) + (i * m[i])) % 65536

md5(m) ==
  LET s == ByteSum(m, Len(m))
      w == WeightedSum(m, Len(m))
      n == Len(m)
  IN  [j \in 1..16 |-> (212 + (29 * j) + (s * j) + (w * (17 - j)) + (n * (j - 1))) % 256]

-----------------------------------------------------------------------------
(* openssl enc -aes-256-cbc -nopad: a stand-in.  What the tools rely on:   *)
(* for each key the block transform is a permutation of the 16-byte        *)
(* blocks, decryption under the same key inverts it, under another key it  *)
(* does not; blocks are chained CBC-style from the IV (each plaintext      *)
(* block is XORed with the previous ciphertext block); the output is as    *)
(* long as the input; an input that is not whole blocks is an error.       *)

\* One byte per block position, each depending on every byte of the key.
KeySchedule(K) ==
  LET RECURSIVE Mix(_, _)
      Mix(i, j) == IF j = 0 THEN 0 ELSE (Mix(i, j - 1) + (K[j] * (i + j))) % 256
  IN  [i \in 1..BLOCK |-> Mix(i, Len(K))]

EncSchedule == KeySchedule(ENC_KEY)

DecSchedule == KeySchedule(DEC_KEY)

\* The keyed permutation of one block and its inverse.
BlockEncrypt(ks, x) == [i \in 1..BLOCK |-> (x[i] + ks[i]) % 256]

BlockDecrypt(ks, y) == [i \in 1..BLOCK |-> (y[i] - ks[i]) % 256]

XorBlock(a, b) == [i \in 1..BLOCK |-> Xor(a[i], b[i])]

NthBlock(s, k) == SubSeq(s, BLOCK * (k - 1) + 1, BLOCK * k)

RECURSIVE CbcEncryptBlocks(_, _, _, _)
\* The first n blocks of plain, encrypted; the chain value is the previous
\* ciphertext block, the IV for the first.
CbcEncryptBlocks(ks, iv, plain, n) ==
  IF n = 0 THEN << >>
  ELSE LET before == CbcEncryptBlocks(ks, iv, plain, n - 1)
           chain  == IF n = 1 THEN iv ELSE NthBlock(before, n - 1)
       IN  before \o BlockEncrypt(ks, XorBlock(NthBlock(plain, n), chain))

RECURSIVE CbcDecryptBlocks(_, _, _, _)
CbcDecryptBlocks(ks, iv, enc, n) ==
  IF n = 0 THEN << >>
  ELSE LET chain == IF n = 1 THEN iv ELSE NthBlock(enc, n - 1)
       IN  CbcDecryptBlocks(ks, iv, enc, n - 1)
             \o XorBlock(BlockDecrypt(ks, NthBlock(enc, n)), chain)

\* openssl enc -e|-d -aes-256-cbc -in infile -out outfile -K .. -iv .. -nopad
\* on the file system f.  envOk: the provider runs at all.  partial: whether
\* the blocks converted before a failure reached the output file.  openssl
\* opens the input, then creates the output, then converts, and reports an
\* input that is not whole blocks when it finishes.
Openssl(decryptMode, ks, iv, infile, outfile, f, envOk, partial) ==
  IF ~envOk \/ ~f[infile].exists
  THEN [returncode |-> 1, fs |-> f]
  ELSE LET in  == f[infile].bytes
           n   == Len(in) \div BLOCK
           out == IF decryptMode THEN CbcDecryptBlocks(ks, iv, in, n)
                                 ELSE CbcEncryptBlocks(ks, iv, in, n)
       IN  IF Len(in) % BLOCK = 0
           THEN [returncode |-> 0, fs |-> [f EXCEPT ![outfile] = File(out)]]
           ELSE [returncode |-> 1,
                 fs |-> [f EXCEPT ![outfile] = File(IF partial THEN out ELSE << >>)]]

-----------------------------------------------------------------------------
(* _wrap_swu_in_zip: zipfile is a stand-in.  What encrypt relies on: the   *)
(* result is a ZIP, so it starts with the local-file-header signature      *)
(* "PK\x03\x04", names the entry update/update.swu, carries the file's     *)
(* data and ends with the end-of-central-directory record "PK\x05\x06".    *)

\* "update/update.swu"
ENTRY_NAME ==
  << 117, 112, 100, 97, 116, 101, 47, 117, 112, 100, 97, 116, 101, 46, 115, 119, 117 >>

_wrap_swu_in_zip(swu) == << 80, 75, 3, 4 >> \o ENTRY_NAME \o swu \o << 80, 75, 5, 6 >>

-----------------------------------------------------------------------------
(* Paths *)

InZip == "in.zip"

InSwu == "in.swu"

InBin == "in.bin"

FwBin == "fw.bin"

Fw2Bin == "fw2.bin"

OutZip == "out.zip"

Out2Zip == "out2.zip"

\* inpath.endswith(".swu")
EndsWithSwu(path) == path = InSwu

\* tmp_plain = outpath + ".plain.tmp"
TmpPlain(outpath) == outpath \o ".plain.tmp"

\* tmp_enc = outpath + ".enc.tmp"
TmpEnc(outpath) == outpath \o ".enc.tmp"

\* tmpfile = outpath + ".stage1.tmp"
TmpStage(outpath) == outpath \o ".stage1.tmp"

EncOutPaths == {FwBin, Fw2Bin}

DecOutPaths == {OutZip, Out2Zip}

Paths ==
  {InZip, InSwu, InBin} \cup EncOutPaths \cup DecOutPaths
    \cup {TmpPlain(p) : p \in EncOutPaths} \cup {TmpEnc(p) : p \in EncOutPaths}
    \cup {TmpStage(p) : p \in DecOutPaths}

-----------------------------------------------------------------------------
(* The pure steps of encrypt and decrypt *)

\* encrypt step 1: zip_bytes, from a raw .swu file or from the file as it is.
ObtainZip(inpath, content) ==
  IF EndsWithSwu(inpath) THEN _wrap_swu_in_zip(content) ELSE content

\* Mutant of LooksLikeZip: a file too short to hold the signature passes.
LooksLikeZipLenient(zip_bytes) == Len(zip_bytes) < 2 \/ Upto(zip_bytes, 2) = << 80, 75 >>

\* zip_bytes[:2] == b"PK"
LooksLikeZip(zip_bytes) == Upto(zip_bytes, 2) = << 80, 75 >>

\* Mutant of FirmwareInfo: the arguments are stored without the mask.
FirmwareInfoUnmasked(ver) == << ver[1], ver[2], ver[3], ver[4] >>

\* bytes([major & 0xFF, minor & 0xFF, patch & 0xFF, board & 0xFF])
FirmwareInfo(ver) == << Mask8(ver[1]), Mask8(ver[2]), Mask8(ver[3]), Mask8(ver[4]) >>

\* Mutant of EncLenField: the length is packed big-endian (">I").
EncLenFieldBigEndian(encrypted) ==
  << 0, 0, (Len(encrypted) \div 256) % 256, Len(encrypted) % 256 >>

\* enc_len = struct.pack("<I", len(encrypted))
EncLenField(encrypted) == PackLE32(Len(encrypted))

\* md5_digest = hashlib.md5(encrypted).digest()
PayloadDigest(encrypted) == md5(encrypted)

\* header = OTA_MAGIC + firmware_info + CUSTOM_INFO + enc_len + md5_digest
BuildHeader(ver, encrypted, md5_digest) ==
  OTA_MAGIC \o FirmwareInfo(ver) \o CUSTOM_INFO \o EncLenField(encrypted) \o md5_digest

\* decrypt: len(data) < HEADER_SIZE
TooSmall(data) == Len(data) < HEADER_SIZE

\* Mutant of PayloadOf: the payload is cut to the declared length,
\* data[0x20:0x20 + enc_len].
PayloadDeclared(data) == Upto(From(data, HEADER_SIZE), UnpackLE32(data, 12))

\* decrypt: payload = data[0x20:]
PayloadOf(data) == From(data, HEADER_SIZE)

\* Mutant of BadMagic: only the first three bytes are compared.
BadMagicPrefix(magic) == SubSeq(magic, 1, 3) # SubSeq(OTA_MAGIC, 1, 3)

\* decrypt: magic != OTA_MAGIC
BadMagic(magic) == magic # OTA_MAGIC

\* Mutant of Md5Mismatch: only the last byte of the digests is compared.
Md5MismatchLastByte(calc_md5, stored_md5) == calc_md5[16] # stored_md5[16]

\* Mutant of Md5Mismatch: the comparison is left out.
Md5MismatchNever(calc_md5, stored_md5) == FALSE

\* decrypt: calc_md5 != stored_md5
Md5Mismatch(calc_md5, stored_md5) == calc_md5 # stored_md5

-----------------------------------------------------------------------------
(* State *)

\* The calls that may run at once; a sequential session uses the first only.
Procs == {1, 2}

VARIABLES
  fs,        \* the file system: what each path holds
  pc,        \* each call's position in encrypt or decrypt
  arg,       \* each call's arguments: op, inpath, outpath, ver
  loc,       \* each call's local variables
  err,       \* each call's exception, "none" while there is none
  trace,     \* history: the steps the call has run, in order
  pre,       \* history: what outpath held when the call began
  wrote,     \* history: what the call last put at outpath
  prov,      \* history: where each path's content comes from
  accepted,  \* history: the paths whose content a decrypt has accepted
  ops        \* operations begun so far

vars == << fs, pc, arg, loc, err, trace, pre, wrote, prov, accepted, ops >>

\* (major, minor, patch, board) arguments, in and out of 0..255.
Versions == { << 1, 1, 46, 0 >>, << 300, -1, 256, 511 >> }

NoProv == [kind |-> "init", archive |-> << >>, ver |-> << 0, 0, 0, 0 >>]

NoArg == [op |-> "none", inpath |-> "", outpath |-> "", ver |-> << 0, 0, 0, 0 >>]

\* The locals before their assignment.  provider: whether openssl was run
\* and whether it could run at all; src: the provenance of the bytes read.
NoLoc ==
  [zip_bytes |-> << >>, zip_padded |-> << >>, encrypted |-> << >>,
   md5_digest |-> << >>, header |-> << >>,
   data |-> << >>, magic |-> << >>, firmware_ver |-> << >>, custom_info |-> << >>,
   enc_len |-> 0, stored_md5 |-> << >>, payload |-> << >>, calc_md5 |-> << >>,
   returncode |-> 0, provider |-> "unused", src |-> NoProv]

Finished(c) == pc[c] \in {"done", "failed"}

Resting(c) == pc[c] \in {"idle", "done", "failed"}

-----------------------------------------------------------------------------
(* Inputs *)

\* An archive of n bytes that starts "PK" as far as it reaches.
PKArchive(n) ==
  [i \in 1..n |-> IF i = 1 THEN 80 ELSE IF i = 2 THEN 75 ELSE ((37 * i) + 11) % 256]

\* A file that is no ZIP.
NotZip == << 127, 69, 76, 70 >>

ArchiveInputs == { PKArchive(n) : n \in 0..MaxArchiveLen } \cup { NotZip }

RawInputs == { << >>, << 115, 119, 117 >> }

CraftPayload(n) == [i \in 1..n |-> ((53 * i) + 7) % 256]

WRONG_MAGIC == << 20, 23, 11, 24 >>

\* A container put together by hand: any magic, a declared length below, at
\* or above the payload's, a digest field that is the payload's digest or not.
Craft(magic, declared, digestOk, payload) ==
  magic \o << 1, 1, 46, 0 >> \o << 9, 9, 9, 9 >> \o PackLE32(declared)
    \o (IF digestOk THEN md5(payload) ELSE md5(payload \o << 0 >>)) \o payload

CraftedContainers ==
  { Craft(m, IF n + d < 0 THEN 0 ELSE n + d, ok, CraftPayload(n)) :
      m \in {OTA_MAGIC, WRONG_MAGIC}, n \in 0..MaxCraftLen, d \in {-1, 0, 1}, ok \in BOOLEAN }
  \cup { Upto(Craft(m, 0, TRUE, << >>), k) : m \in {OTA_MAGIC, WRONG_MAGIC}, k \in {0, 3, 4, 31} }

EmptyFS == [p \in Paths |-> NoFile]

InitRest ==
  /\ pc = [c \in Procs |-> "idle"]
  /\ arg = [c \in Procs |-> NoArg]
  /\ loc = [c \in Procs |-> NoLoc]
  /\ err = [c \in Procs |-> "none"]
  /\ trace = [c \in Procs |-> << >>]
  /\ pre = [c \in Procs |-> NoFile]
  /\ wrote = [c \in Procs |-> NoFile]
  /\ prov = [p \in Paths |-> NoProv]
  /\ accepted = {}
  /\ ops = 0

\* A session starts with one input file: an archive, a raw .swu file or a
\* container.
Init ==
  /\ \/ \E a \in ArchiveInputs : fs = [EmptyFS EXCEPT ![InZip] = File(a)]
     \/ \E r \in RawInputs : fs = [EmptyFS EXCEPT ![InSwu] = File(r)]
     \/ \E k \in CraftedContainers : fs = [EmptyFS EXCEPT ![InBin] = File(k)]
  /\ InitRest

-----------------------------------------------------------------------------
(* Steps shared by the actions *)

\* Call c moves to position `to` with locals l, having run step `label`.
Goto(c, to, l, label) ==
  /\ pc' = [pc EXCEPT ![c] = to]
  /\ loc' = [loc EXCEPT ![c] = l]
  /\ trace' = [trace EXCEPT ![c] = Append(@, label)]

\* Call c raises: from inside a try block the finally clause runs next.
Raise(c, kind) == err' = [err EXCEPT ![c] = kind]

\* The file system becomes f; every path whose content changed gets the
\* provenance `how` and is no longer an accepted container.
Store(f, how) ==
  /\ fs' = f
  /\ prov' = [p \in Paths |-> IF f[p] # fs[p] THEN how ELSE prov[p]]
  /\ accepted' = { p \in accepted : f[p] = fs[p] }

Unlinked(f, paths) == [p \in Paths |-> IF p \in paths THEN NoFile ELSE f[p]]

\* main() of either tool: the input file exists, then encrypt(...) or
\* decrypt(...) is called.
Begin(c, op, inpath, outpath, ver) ==
  /\ fs[inpath].exists
  /\ arg' = [arg EXCEPT ![c] = [op |-> op, inpath |-> inpath, outpath |-> outpath, ver |-> ver]]
  /\ pc' = [pc EXCEPT ![c] = IF op = "encrypt" THEN "e_obtain" ELSE "d_read"]
  /\ loc' = [loc EXCEPT ![c] = NoLoc]
  /\ err' = [err EXCEPT ![c] = "none"]
  /\ trace' = [trace EXCEPT ![c] = << >>]
  /\ pre' = [pre EXCEPT ![c] = fs[outpath]]
  /\ wrote' = [wrote EXCEPT ![c] = NoFile]
  /\ ops' = ops + 1
  /\ UNCHANGED << fs, prov, accepted >>

-----------------------------------------------------------------------------
(* encrypt(inpath, outpath, major, minor, patch, board) *)

\* 1. Obtain ZIP bytes
EncObtain(c) ==
  /\ pc[c] = "e_obtain"
  /\ LET zip_bytes == ObtainZip(arg[c].inpath, fs[arg[c].inpath].bytes)
         l == [loc[c] EXCEPT !.zip_bytes = zip_bytes, !.src = prov[arg[c].inpath]]
     IN  IF ~EndsWithSwu(arg[c].inpath) /\ ~LooksLikeZip(zip_bytes)
         THEN Goto(c, "failed", l, "obtain") /\ Raise(c, "NotAZip")
         ELSE Goto(c, "e_pad", l, "obtain") /\ UNCHANGED err
  /\ UNCHANGED << fs, arg, pre, wrote, prov, accepted, ops >>

\* 2. Pad to the block size
EncPad(c) ==
  /\ pc[c] = "e_pad"
  /\ Goto(c, "e_write_plain", [loc[c] EXCEPT !.zip_padded = _pad16(loc[c].zip_bytes)], "pad")
  /\ UNCHANGED << fs, arg, err, pre, wrote, prov, accepted, ops >>

\* 3. try: with open(tmp_plain, "wb") as f: f.write(zip_padded)
EncWritePlain(c) ==
  /\ pc[c] = "e_write_plain"
  /\ Store([fs EXCEPT ![TmpPlain(arg[c].outpath)] = File(loc[c].zip_padded)],
           [kind |-> "temp", archive |-> << >>, ver |-> << 0, 0, 0, 0 >>])
  /\ Goto(c, "e_openssl", loc[c], "write_plain")
  /\ UNCHANGED << arg, err, pre, wrote, ops >>

\* 3. subprocess.run(["openssl", "enc", "-e", ...]); returncode != 0 raises
EncOpenssl(c) ==
  /\ pc[c] = "e_openssl"
  /\ \E envOk \in BOOLEAN, partial \in BOOLEAN :
       LET r == Openssl(FALSE, EncSchedule, ENC_IV, TmpPlain(arg[c].outpath),
                        TmpEnc(arg[c].outpath), fs, envOk, partial)
           l == [loc[c] EXCEPT !.returncode = r.returncode,
                               !.provider = IF envOk THEN "ran" ELSE "down"]
       IN  /\ Store(r.fs, [kind |-> "temp", archive |-> << >>, ver |-> << 0, 0, 0, 0 >>])
           /\ IF r.returncode # 0
              THEN Goto(c, "e_finally", l, "openssl") /\ Raise(c, "OpensslFailed")
              ELSE Goto(c, "e_read_enc", l, "openssl") /\ UNCHANGED err
  /\ UNCHANGED << arg, pre, wrote, ops >>

\* 3. with open(tmp_enc, "rb") as f: encrypted = f.read()
EncReadEnc(c) ==
  /\ pc[c] = "e_read_enc"
  /\ LET f == fs[TmpEnc(arg[c].outpath)]
     IN  IF f.exists
         THEN Goto(c, "e_finally", [loc[c] EXCEPT !.encrypted = f.bytes], "read_enc")
              /\ UNCHANGED err
         ELSE Goto(c, "e_finally", loc[c], "read_enc") /\ Raise(c, "FileNotFound")
  /\ UNCHANGED << fs, arg, pre, wrote, prov, accepted, ops >>

\* 3. finally: unlink tmp_plain and tmp_enc where they exist; a pending
\* exception then leaves encrypt.
EncFinally(c) ==
  /\ pc[c] = "e_finally"
  /\ Store(Unlinked(fs, {TmpPlain(arg[c].outpath), TmpEnc(arg[c].outpath)}), NoProv)
  /\ Goto(c, IF err[c] = "none" THEN "e_md5" ELSE "failed", loc[c], "finally")
  /\ UNCHANGED << arg, err, pre, wrote, ops >>

\* 4. Compute MD5 of the encrypted payload
EncMd5(c) ==
  /\ pc[c] = "e_md5"
  /\ Goto(c, "e_header", [loc[c] EXCEPT !.md5_digest = PayloadDigest(loc[c].encrypted)], "md5")
  /\ UNCHANGED << fs, arg, err, pre, wrote, prov, accepted, ops >>

\* 5. Build the header: bytes([...]) takes values in range(256) only;
\* assert len(header) == 0x20
EncHeader(c) ==
  /\ pc[c] = "e_header"
  /\ LET header == BuildHeader(arg[c].ver, loc[c].encrypted, loc[c].md5_digest)
         l == [loc[c] EXCEPT !.header = header]
     IN  IF \E i \in 1..4 : FirmwareInfo(arg[c].ver)[i] \notin Byte
         THEN Goto(c, "failed", loc[c], "header") /\ Raise(c, "ValueError")
         ELSE IF Len(header) = HEADER_SIZE
         THEN Goto(c, "e_write_out", l, "header") /\ UNCHANGED err
         ELSE Goto(c, "failed", l, "header") /\ Raise(c, "AssertionError")
  /\ UNCHANGED << fs, arg, pre, wrote, prov, accepted, ops >>

\* 6. with open(outpath, "wb") as f: f.write(header); f.write(encrypted)
EncWriteOut(c) ==
  /\ pc[c] = "e_write_out"
  /\ LET out == File(loc[c].header \o loc[c].encrypted)
     IN  /\ fs' = [fs EXCEPT ![arg[c].outpath] = out]
         /\ prov' = [prov EXCEPT ![arg[c].outpath] =
                       [kind |-> "packed", archive |-> loc[c].zip_bytes, ver |-> arg[c].ver]]
         /\ accepted' = accepted \ {arg[c].outpath}
         /\ wrote' = [wrote EXCEPT ![c] = out]
  /\ Goto(c, "done", loc[c], "write_out")
  /\ UNCHANGED << arg, err, pre, ops >>

Encrypt(c) ==
  \/ EncObtain(c)
  \/ EncPad(c)
  \/ EncWritePlain(c)
  \/ EncOpenssl(c)
  \/ EncReadEnc(c)
  \/ EncFinally(c)
  \/ EncMd5(c)
  \/ EncHeader(c)
  \/ EncWriteOut(c)

-----------------------------------------------------------------------------
(* decrypt(inpath, outpath) *)

\* with open(inpath, "rb") as f: data = f.read()
DecRead(c) ==
  /\ pc[c] = "d_read"
  /\ LET f == fs[arg[c].inpath]
     IN  IF f.exists
         THEN Goto(c, "d_size", [loc[c] EXCEPT !.data = f.bytes, !.src = prov[arg[c].inpath]],
                   "read")
              /\ UNCHANGED err
         ELSE Goto(c, "failed", loc[c], "read") /\ Raise(c, "FileNotFound")
  /\ UNCHANGED << fs, arg, pre, wrote, prov, accepted, ops >>

\* if len(data) < HEADER_SIZE: raise ValueError("File too small ...")
DecSize(c) ==
  /\ pc[c] = "d_size"
  /\ IF TooSmall(loc[c].data)
     THEN Goto(c, "failed", loc[c], "size") /\ Raise(c, "TooSmall")
     ELSE Goto(c, "d_parse", loc[c], "size") /\ UNCHANGED err
  /\ UNCHANGED << fs, arg, pre, wrote, prov, accepted, ops >>

\* magic, firmware_ver, custom_info, enc_len, stored_md5, payload
DecParse(c) ==
  /\ pc[c] = "d_parse"
  /\ LET data == loc[c].data
     IN  Goto(c, "d_magic",
              [loc[c] EXCEPT !.magic = SubSeq(data, 1, 4),
                             !.firmware_ver = SubSeq(data, 5, 8),
                             !.custom_info = SubSeq(data, 9, 12),
                             !.enc_len = UnpackLE32(data, 12),
                             !.stored_md5 = SubSeq(data, 17, 32),
                             !.payload = PayloadOf(data)],
              "parse")
  /\ UNCHANGED << fs, arg, err, pre, wrote, prov, accepted, ops >>

\* if magic != OTA_MAGIC: raise ValueError("Bad magic ...")
DecMagic(c) ==
  /\ pc[c] = "d_magic"
  /\ IF BadMagic(loc[c].magic)
     THEN Goto(c, "failed", loc[c], "magic") /\ Raise(c, "BadMagic")
     ELSE Goto(c, "d_md5", loc[c], "magic") /\ UNCHANGED err
  /\ UNCHANGED << fs, arg, pre, wrote, prov, accepted, ops >>

\* calc_md5 = hashlib.md5(payload).digest(); a difference raises
\* ValueError("MD5 mismatch ...")
DecMd5(c) ==
  /\ pc[c] = "d_md5"
  /\ LET l == [loc[c] EXCEPT !.calc_md5 = md5(loc[c].payload)]
     IN  IF Md5Mismatch(l.calc_md5, l.stored_md5)
         THEN Goto(c, "failed", l, "md5") /\ Raise(c, "Md5Mismatch")
         ELSE Goto(c, "d_stage", l, "md5") /\ UNCHANGED err
  /\ UNCHANGED << fs, arg, pre, wrote, prov, accepted, ops >>

\* try: with open(tmpfile, "wb") as f: f.write(payload)
DecStage(c) ==
  /\ pc[c] = "d_stage"
  /\ Store([fs EXCEPT ![TmpStage(arg[c].outpath)] = File(loc[c].payload)],
           [kind |-> "temp", archive |-> << >>, ver |-> << 0, 0, 0, 0 >>])
  /\ Goto(c, "d_openssl", loc[c], "stage")
  /\ UNCHANGED << arg, err, pre, wrote, ops >>

\* subprocess.run(["openssl", "enc", "-d", ..., "-in", tmpfile, "-out", outpath,
\* ...]); returncode != 0 raises
DecOpenssl(c) ==
  /\ pc[c] = "d_openssl"
  /\ \E envOk \in BOOLEAN, partial \in BOOLEAN :
       LET r == Openssl(TRUE, DecSchedule, DEC_IV, TmpStage(arg[c].outpath),
                        arg[c].outpath, fs, envOk, partial)
           l == [loc[c] EXCEPT !.returncode = r.returncode,
                               !.provider = IF envOk THEN "ran" ELSE "down"]
       IN  /\ Store(r.fs, [kind |-> "unpacked", archive |-> << >>, ver |-> << 0, 0, 0, 0 >>])
           /\ wrote' = [wrote EXCEPT ![c] =
                          IF envOk /\ fs[TmpStage(arg[c].outpath)].exists
                          THEN r.fs[arg[c].outpath] ELSE @]
           /\ IF r.returncode # 0
              THEN Goto(c, "d_finally", l, "openssl") /\ Raise(c, "OpensslFailed")
              ELSE Goto(c, "d_finally", l, "openssl") /\ UNCHANGED err
  /\ UNCHANGED << arg, pre, ops >>

\* finally: unlink tmpfile where it exists; a pending exception then leaves
\* decrypt, otherwise it returns.
DecFinally(c) ==
  /\ pc[c] = "d_finally"
  /\ LET f == Unlinked(fs, {TmpStage(arg[c].outpath)})
     IN  /\ fs' = f
         /\ prov' = [p \in Paths |-> IF f[p] # fs[p] THEN NoProv ELSE prov[p]]
         /\ accepted' =
              IF err[c] = "none" /\ fs[arg[c].inpath] = File(loc[c].data)
              THEN accepted \cup {arg[c].inpath} ELSE accepted
  /\ Goto(c, IF err[c] = "none" THEN "done" ELSE "failed", loc[c], "finally")
  /\ UNCHANGED << arg, err, pre, wrote, ops >>

Decrypt(c) ==
  \/ DecRead(c)
  \/ DecSize(c)
  \/ DecParse(c)
  \/ DecMagic(c)
  \/ DecMd5(c)
  \/ DecStage(c)
  \/ DecOpenssl(c)
  \/ DecFinally(c)

-----------------------------------------------------------------------------
(* The environment *)

\* b with bit k flipped
FlipBit(b, k) == IF (b \div (2 ^ k)) % 2 = 1 THEN b - (2 ^ k) ELSE b + (2 ^ k)

\* One bit of the payload region (offset 0x20 on) of an accepted container
\* is flipped; the header stays as it is.
Tamper(p, i, k) ==
  /\ ops < MaxOps
  /\ \A c \in Procs : Resting(c)
  /\ p \in accepted
  /\ i \in (HEADER_SIZE + 1)..Len(fs[p].bytes)
  /\ fs' = [fs EXCEPT ![p] = File([@.bytes EXCEPT ![i] = FlipBit(@, k)])]
  /\ prov' = [prov EXCEPT ![p] = [kind |-> "tampered", archive |-> << >>, ver |-> << 0, 0, 0, 0 >>]]
  /\ accepted' = accepted \ {p}
  /\ ops' = ops + 1
  /\ UNCHANGED << pc, arg, loc, err, trace, pre, wrote >>

-----------------------------------------------------------------------------
(* One call after another *)

\* The next call of the session begins once the one before has ended.
Start(c) ==
  /\ ops < MaxOps
  /\ Resting(c)
  /\ \/ \E inpath \in {InZip, InSwu}, ver \in Versions :
          Begin(c, "encrypt", inpath, FwBin, ver)
     \/ \E inpath \in {InBin, FwBin} :
          Begin(c, "decrypt", inpath, OutZip, << 0, 0, 0, 0 >>)

Next ==
  \/ Start(1)
  \/ Encrypt(1)
  \/ Decrypt(1)
  \/ \E p \in accepted : \E i \in 1..Len(fs[p].bytes), k \in 0..7 : Tamper(p, i, k)

Spec == Init /\ [][Next]_vars

-----------------------------------------------------------------------------
(* Calls side by side *)

\* Two calls, each begun once, with no coordination: any inputs among the
\* files present at the start, any of the output paths.
StartPar(c) ==
  /\ pc[c] = "idle"
  /\ \/ \E inpath \in {InZip, InSwu}, outpath \in EncOutPaths, ver \in Versions :
          Begin(c, "encrypt", inpath, outpath, ver)
     \/ \E outpath \in DecOutPaths :
          Begin(c, "decrypt", InBin, outpath, << 0, 0, 0, 0 >>)

InitPar ==
  /\ fs = [EmptyFS EXCEPT ![InZip] = File(PKArchive(MaxArchiveLen)),
                          ![InSwu] = File(<< 115, 119, 117 >>),
                          ![InBin] = File(Craft(OTA_MAGIC, BLOCK, TRUE, CraftPayload(BLOCK)))]
  /\ InitRest

NextPar == \E c \in Procs : StartPar(c) \/ Encrypt(c) \/ Decrypt(c)

SpecPar == InitPar /\ [][NextPar]_vars

-----------------------------------------------------------------------------
(* Properties *)

IsPrefix(s, t) == Len(s) <= Len(t) /\ s = SubSeq(t, 1, Len(s))

Ran(c, label) == \E i \in 1..Len(trace[c]) : trace[c][i] = label

\* The order of decrypt's steps.
DecryptOrder == << "read", "size", "parse", "magic", "md5", "stage", "openssl", "finally" >>

\* The layout of a container: 32 header bytes, the length field the little-
\* endian count of the bytes after them, that count whole blocks, the digest
\* field the digest of those bytes.
WellFormed(d) ==
  /\ Len(d) >= 32
  /\ Len(d) = 32 + (d[13] + (256 * d[14]) + (65536 * d[15]) + (16777216 * d[16]))
  /\ (Len(d) - 32) % 16 = 0
  /\ SubSeq(d, 17, 32) = md5(SubSeq(d, 33, Len(d)))

\* All three checks of decrypt pass on these bytes.
ChecksPass(d) ==
  /\ Len(d) >= 32
  /\ SubSeq(d, 1, 4) = << 20, 23, 11, 23 >>
  /\ SubSeq(d, 17, 32) = md5(SubSeq(d, 33, Len(d)))

\* C1 (as claimed): decrypt of a container that encrypt wrote from archive A,
\* with the cipher provider available, succeeds and leaves exactly _pad16(A)
\* at outpath.
C1_RoundTrip ==
  \A c \in Procs :
    (arg[c].op = "decrypt" /\ Finished(c) /\ loc[c].src.kind = "packed"
       /\ loc[c].provider # "down")
    => /\ pc[c] = "done"
       /\ fs[arg[c].outpath] = File(_pad16(loc[c].src.archive))

\* C2: a decrypt whose input is an accepted container with one payload bit
\* flipped never gets past the digest check: it ends with the MD5-mismatch
\* error, and outpath is as it was.
C2_TamperDetected ==
  \A c \in Procs :
    (arg[c].op = "decrypt" /\ loc[c].src.kind = "tampered")
    => /\ pc[c] \in {"d_size", "d_parse", "d_magic", "d_md5", "failed"}
       /\ Finished(c) => /\ err[c] = "Md5Mismatch"
                         /\ fs[arg[c].outpath] = pre[c]
                         /\ wrote[c] = NoFile

C2_Witness ==
  \E c \in Procs :
    /\ arg[c].op = "decrypt" /\ loc[c].src.kind = "tampered"
    /\ pc[c] = "failed" /\ err[c] = "Md5Mismatch"

\* C3 (as claimed): a decrypt whose input has four first bytes that are not
\* the magic ends with the bad-magic error, whatever the input's length.
C3_MagicAnyLength ==
  \A c \in Procs :
    (arg[c].op = "decrypt" /\ Finished(c) /\ Len(loc[c].data) >= 4
       /\ SubSeq(loc[c].data, 1, 4) # << 20, 23, 11, 23 >>)
    => err[c] = "BadMagic"

\* C3 (amended): a decrypt whose input has at least 32 bytes and does not
\* start with the magic ends with the bad-magic error, whatever the rest of
\* the input, and never reaches the digest check; a shorter input ends with
\* the too-small error.
C3_MagicEnforced ==
  \A c \in Procs :
    (arg[c].op = "decrypt" /\ pc[c] # "d_read" /\ Upto(loc[c].data, 4) # << 20, 23, 11, 23 >>)
    => /\ pc[c] \in {"d_size", "d_parse", "d_magic", "failed"}
       /\ Finished(c) =>
            /\ err[c] = IF Len(loc[c].data) >= 32 THEN "BadMagic" ELSE "TooSmall"
            /\ fs[arg[c].outpath] = pre[c]

C3_Witness ==
  \E c \in Procs :
    /\ arg[c].op = "decrypt" /\ pc[c] = "failed" /\ err[c] = "BadMagic"
    /\ Len(loc[c].data) > 32
    /\ SubSeq(loc[c].data, 17, 32) = md5(SubSeq(loc[c].data, 33, Len(loc[c].data)))

\* C4 (as claimed): outpath differs from what it held when the call began
\* only in a call that has raised nothing, and a call that ends in an error
\* leaves outpath as it was.
C4_NoPartialOutput ==
  \A c \in Procs :
    /\ (arg[c].op # "none" /\ fs[arg[c].outpath] # pre[c]) => err[c] = "none"
    /\ pc[c] = "failed" => fs[arg[c].outpath] = pre[c]

\* What one call does when it runs alone, as far as its result and the
\* content it puts at outpath go, the provider being available.
AloneOutcomes(c) ==
  LET in == fs[arg[c].inpath].bytes
  IN  IF arg[c].op = "encrypt"
      THEN LET zip == ObtainZip(arg[c].inpath, in)
               pad == _pad16(zip)
               enc == CbcEncryptBlocks(EncSchedule, ENC_IV, pad, Len(pad) \div BLOCK)
           IN  IF ~EndsWithSwu(arg[c].inpath) /\ ~LooksLikeZip(zip)
               THEN { [err |-> "NotAZip", wrote |-> NoFile] }
               ELSE { [err |-> "none",
                       wrote |-> File(BuildHeader(arg[c].ver, enc, PayloadDigest(enc)) \o enc)] }
      ELSE LET payload == PayloadOf(in)
               dec == CbcDecryptBlocks(DecSchedule, DEC_IV, payload, Len(payload) \div BLOCK)
           IN  IF TooSmall(in) THEN { [err |-> "TooSmall", wrote |-> NoFile] }
               ELSE IF BadMagic(SubSeq(in, 1, 4)) THEN { [err |-> "BadMagic", wrote |-> NoFile] }
               ELSE IF Md5Mismatch(md5(payload), SubSeq(in, 17, 32))
                    THEN { [err |-> "Md5Mismatch", wrote |-> NoFile] }
               ELSE IF Len(payload) % BLOCK = 0 THEN { [err |-> "none", wrote |-> File(dec)] }
               ELSE { [err |-> "OpensslFailed", wrote |-> File(dec)],
                      [err |-> "OpensslFailed", wrote |-> File(<< >>)] }

\* A sequential session agrees with AloneOutcomes: every call that ends,
\* the provider not being down and its input still what it read, ends as
\* the call alone does.
AloneIsSequential ==
  \A c \in Procs :
    (Finished(c) /\ loc[c].provider # "down" /\ prov[arg[c].inpath] = loc[c].src)
    => [err |-> err[c], wrote |-> wrote[c]] \in AloneOutcomes(c)

\* C5 (as claimed): of calls running side by side, the provider available to
\* all of them, each ends with the result and the output content it has when
\* it runs alone.
C5_Isolation ==
  \A c \in Procs :
    (Finished(c) /\ \A d \in Procs : loc[d].provider # "down")
    => [err |-> err[c], wrote |-> wrote[c]] \in AloneOutcomes(c)

\* Calls side by side whose output paths differ do end as they do alone.
IsolationDistinctOutpaths ==
  (arg[1].outpath # arg[2].outpath)
  => \A c \in Procs :
       (Finished(c) /\ \A d \in Procs : loc[d].provider # "down")
       => [err |-> err[c], wrote |-> wrote[c]] \in AloneOutcomes(c)

\* C6: the container a successful encrypt wrote is 32 + payloadLength bytes,
\* its length field is the little-endian payload byte count, that count is
\* whole blocks, and its digest field is the digest of the payload; it is
\* what outpath holds.
C6_PackWellFormed ==
  \A c \in Procs :
    (arg[c].op = "encrypt" /\ pc[c] = "done")
    => /\ wrote[c].exists
       /\ WellFormed(wrote[c].bytes)
       /\ fs[arg[c].outpath] = wrote[c]

C6_Witness ==
  \E c \in Procs :
    /\ arg[c].op = "encrypt" /\ pc[c] = "done"
    /\ Len(loc[c].zip_bytes) = 17
    /\ Len(wrote[c].bytes) = 64

\* C7 (as claimed): encrypt of a zero-length archive, the provider being
\* available, succeeds with a well-formed container whose payload length is
\* a positive multiple of 16.
C7_EmptyArchivePacks ==
  \A c \in Procs :
    (arg[c].op = "encrypt" /\ Finished(c) /\ Len(loc[c].zip_bytes) = 0
       /\ loc[c].provider # "down")
    => /\ pc[c] = "done"
       /\ WellFormed(wrote[c].bytes)
       /\ Len(wrote[c].bytes) > 32

\* C7 (amended): encrypt of a zero-length archive is rejected by the ZIP
\* signature check before anything is padded or written; a zero-length raw
\* .swu input is wrapped into a ZIP that is not empty, and its container,
\* once written, is well-formed with a payload length that is a positive
\* multiple of 16.
C7_EmptyArchiveRejected ==
  \A c \in Procs :
    /\ (arg[c].op = "encrypt" /\ pc[c] # "e_obtain" /\ Len(loc[c].zip_bytes) = 0)
       => /\ pc[c] = "failed" /\ err[c] = "NotAZip"
          /\ trace[c] = << "obtain" >>
          /\ fs[arg[c].outpath] = pre[c]
          /\ wrote[c] = NoFile
    /\ (arg[c].op = "encrypt" /\ EndsWithSwu(arg[c].inpath) /\ Finished(c)
          /\ fs[arg[c].inpath].bytes = << >>)
       => \/ pc[c] = "failed" /\ loc[c].provider = "down"
          \/ /\ pc[c] = "done"
             /\ WellFormed(wrote[c].bytes)
             /\ Len(wrote[c].bytes) > 32

C7_Witness ==
  \E c \in Procs :
    /\ arg[c].op = "encrypt" /\ pc[c] = "failed" /\ err[c] = "NotAZip"
    /\ loc[c].zip_bytes = << >>

\* C8: whatever integers the version and board arguments are, encrypt of a
\* ZIP with the provider available succeeds, and the fields decrypt reads
\* from the container are the magic, the arguments modulo 256 and
\* 01 00 00 00.
C8_HeaderFields ==
  \A c \in Procs :
    /\ (arg[c].op = "encrypt" /\ Finished(c) /\ loc[c].provider # "down"
          /\ (EndsWithSwu(arg[c].inpath) \/ Upto(loc[c].zip_bytes, 2) = << 80, 75 >>))
       => pc[c] = "done"
    /\ (arg[c].op = "decrypt" /\ loc[c].src.kind = "packed"
          /\ pc[c] \notin {"d_read", "d_size", "d_parse"})
       => /\ loc[c].magic = << 20, 23, 11, 23 >>
          /\ loc[c].firmware_ver = [i \in 1..4 |-> loc[c].src.ver[i] % 256]
          /\ \A i \in 1..4 : loc[c].firmware_ver[i] \in 0..255
          /\ loc[c].custom_info = << 1, 0, 0, 0 >>

C8_Witness ==
  \E c \in Procs :
    /\ arg[c].op = "decrypt" /\ loc[c].src.kind = "packed"
    /\ loc[c].src.ver = << 300, -1, 256, 511 >>
    /\ loc[c].firmware_ver = << 44, 255, 0, 255 >>

\* C9: decrypt runs its steps in one fixed order, none twice, and the staging
\* file is written and the cipher run only once the size, magic and digest
\* checks have all passed on the bytes read.
C9_CheckOrder ==
  \A c \in Procs :
    arg[c].op = "decrypt"
    => /\ IsPrefix(trace[c], DecryptOrder)
       /\ (Ran(c, "stage") \/ Ran(c, "openssl") \/ loc[c].provider # "unused"
             \/ wrote[c] # NoFile)
          => /\ ChecksPass(loc[c].data)
             /\ loc[c].calc_md5 = loc[c].stored_md5
             /\ IsPrefix(<< "read", "size", "parse", "magic", "md5" >>, trace[c])

C9_Witness ==
  \E c \in Procs : arg[c].op = "decrypt" /\ Ran(c, "openssl") /\ pc[c] = "done"

\* C10: a decrypt whose input has at least 32 bytes, the magic and a digest
\* field that is the digest of the bytes after the header goes on to the
\* cipher, and succeeds when those bytes are whole blocks and the provider
\* ran, whether or not the declared length is their count.
C10_DeclaredLengthInformational ==
  \A c \in Procs :
    (arg[c].op = "decrypt" /\ Finished(c) /\ ChecksPass(loc[c].data))
    => /\ Ran(c, "md5") /\ Ran(c, "openssl")
       /\ err[c] \notin {"TooSmall", "BadMagic", "Md5Mismatch"}
       /\ ((Len(loc[c].data) - 32) % 16 = 0 /\ loc[c].provider = "ran") => pc[c] = "done"

C10_Witness ==
  \E c \in Procs :
    /\ arg[c].op = "decrypt" /\ pc[c] = "done"
    /\ loc[c].enc_len # Len(loc[c].payload)
    /\ Len(loc[c].payload) > 0

=============================================================================
